---- MODULE Spec2Model ----
(***************************************************************************)
(* Model of the lotto picker page (LottoPage): the state the component     *)
(* keeps with useState, the click handlers, and the interval / timeout     *)
(* callbacks of runDrawAnimationAndEvaluate.                                *)
(*                                                                         *)
(* Left out: autoTicked, showConfetti / pieces, sound playback and the      *)
(* canvas confetti; none of them is read by a handler modelled here.       *)
(* A JavaScript Set is modelled as a set: the only readers of its          *)
(* iteration order sort the numbers first (the sort is modelled).          *)
(***************************************************************************)
EXTENDS Integers, Sequences, FiniteSets, TLC

\* ------------------------------------------------------------ constants
PANELS == <<"A", "B", "C", "D", "E">>
MAX_PER_PANEL == 6
LOCK_STEP_MS == 220
NumCount == 45
NumSlots == 7
WIN_COUNT == 6
NULL == 0

PanelSet == {PANELS[k] : k \in 1..Len(PANELS)}
Slots == 0..(NumSlots - 1)
ALL_NUMS == [k \in 1..NumCount |-> k]

\* ------------------------------------------------------------ bounds
\* Math.random() is an input: Math.floor(Math.random() * n) is drawn from
\* 0..cap, cut to n - 1.  MaxRandIdx is the cap of the whole page model,
\* WideRandIdx the cap where only the draw is studied.
MaxRandIdx == 0
WideRandIdx == 2
\* Number boxes a click can hit, panels whose boxes and check boxes are
\* clicked, and reveal sequences started in one behaviour.
MaxToggleNum == 1
MaxEditPanel == 1
MaxDraws == 2
\* Picks of the sheet whose rank is studied come from 1..RankPoolMax.
RankPoolMax == 13
\* Numbers toggle is called with where the picks alone are studied.
MaxPickNum == 7
\* Cap of the random source where auto-fill alone is studied.
AutoRandIdx == 1

EditPanels == {PANELS[k] : k \in 1..MaxEditPanel}
ToggleNums == 1..MaxToggleNum

\* ------------------------------------------------------------ helpers
Min(a, b) == IF a < b THEN a ELSE b

\* Math.floor(Math.random() * n), the random source cut to 0..cap
RandIdx(n, cap) == 0..Min(n - 1, cap)

\* pool.splice(j, 1): the pool without its element at 0-based index j
Splice(pool, j) == [k \in 1..(Len(pool) - 1) |-> IF k <= j THEN pool[k] ELSE pool[k + 1]]

\* arr.sort((a, b) => a - b) of an array of distinct numbers held as a set
RECURSIVE SortSet(_)
SortSet(S) ==
  IF S = {} THEN <<>>
  ELSE LET m == CHOOSE x \in S : \A y \in S : x <= y
       IN <<m>> \o SortSet(S \ {m})

\* arr.sort((a, b) => a - b) of an array: insertion of each element in turn
RECURSIVE InsertAsc(_, _)
InsertAsc(s, x) ==
  IF s = <<>> THEN <<x>>
  ELSE IF x < Head(s) THEN <<x>> \o s
  ELSE <<Head(s)>> \o InsertAsc(Tail(s), x)

RECURSIVE SortAsc(_)
SortAsc(s) == IF s = <<>> THEN <<>> ELSE InsertAsc(SortAsc(Tail(s)), Head(s))

Range(s) == {s[k] : k \in 1..Len(s)}

\* The loop "for k times: j = random index; out.push(pool.splice(j, 1)[0])":
\* every <<out, pool>> it can end with.
RECURSIVE SampleLoop(_, _, _, _)
SampleLoop(pool, out, k, cap) ==
  IF k = 0 \/ Len(pool) = 0 THEN {<<out, pool>>}
  ELSE UNION {SampleLoop(Splice(pool, j), Append(out, pool[j + 1]), k - 1, cap) :
                j \in RandIdx(Len(pool), cap)}

\* ------------------------------------------------------------ state
VARIABLES
  selected,          \* SelectedMap: panel -> set of picked numbers
  showInstruction,   \* instruction modal shown
  showModal,         \* result modal shown
  animating,
  displayed,         \* slot 0..6 -> NULL or the number shown
  winning,           \* number[]: the last generated main numbers
  bonus,             \* NULL or the last generated bonus number
  results,           \* DrawResult[]
  shouldConfetti,
  lastSnapshot,      \* <<>> for null, else <<snapshot>>
  toast,             \* the warning the handler that ran last gave to toast.warning
  runs,              \* one record per call of runDrawAnimationAndEvaluate
  published,         \* history: the run whose timeout last set results (0: none)
                     \* and the number of runs started by then
  edited             \* history: the runs during whose flight the picks were edited

vars == <<selected, showInstruction, showModal, animating, displayed, winning,
          bonus, results, shouldConfetti, lastSnapshot, toast, runs, published, edited>>

initialSelected == [p \in PanelSet |-> {}]
NotPublished == [run |-> 0, draws |-> 0]
NoToast == [kind |-> "none", sheets |-> <<>>]
\* a handler that calls toast.warning nowhere
NoWarning == toast' = NoToast

Init ==
  /\ selected = initialSelected
  /\ showInstruction = TRUE
  /\ showModal = FALSE
  /\ animating = FALSE
  /\ displayed = [i \in Slots |-> NULL]
  /\ winning = <<>>
  /\ bonus = NULL
  /\ results = <<>>
  /\ shouldConfetti = FALSE
  /\ lastSnapshot = <<>>
  /\ toast = NoToast
  /\ runs = <<>>
  /\ published = NotPublished
  /\ edited = {}

\* The page under the two fixed full-screen overlays takes clicks only when
\* neither is rendered.
PageClickable == ~showInstruction /\ ~showModal

DismissInstruction ==
  /\ showInstruction
  /\ showInstruction' = FALSE
  /\ NoWarning
  /\ UNCHANGED <<selected, showModal, animating, displayed, winning, bonus, results,
                 shouldConfetti, lastSnapshot, runs, published, edited>>

\* ------------------------------------------------------------ picks
\* toggle without the size test: a number not yet picked is always added
toggle_NoLimit(sel, panel, num) ==
  IF num \in sel[panel] THEN [sel EXCEPT ![panel] = @ \ {num}]
  ELSE [sel EXCEPT ![panel] = @ \cup {num}]

toggle(sel, panel, num) ==
  IF num \in sel[panel] THEN [sel EXCEPT ![panel] = @ \ {num}]
  ELSE IF Cardinality(sel[panel]) < MAX_PER_PANEL THEN [sel EXCEPT ![panel] = @ \cup {num}]
  ELSE sel

\* autoFillPanel topping up from the whole pool, picked numbers included
autoFillPanel_UnfilteredPool(sel, panel, cap) ==
  LET current == sel[panel] IN
  IF Cardinality(current) < MAX_PER_PANEL
  THEN LET need == MAX_PER_PANEL - Cardinality(current)
       IN {[sel EXCEPT ![panel] = current \cup Range(o[1])] :
             o \in SampleLoop(ALL_NUMS, <<>>, need, cap)}
  ELSE {[sel EXCEPT ![panel] = Range(o[1])] :
          o \in SampleLoop(ALL_NUMS, <<>>, MAX_PER_PANEL, cap)}

\* every value setSelected can receive from autoFillPanel(panel)
autoFillPanel(sel, panel, cap) ==
  LET current == sel[panel] IN
  IF Cardinality(current) < MAX_PER_PANEL
  THEN LET need == MAX_PER_PANEL - Cardinality(current)
           pool == SelectSeq(ALL_NUMS, LAMBDA n : n \notin current)
       IN {[sel EXCEPT ![panel] = current \cup Range(o[1])] :
             o \in SampleLoop(pool, <<>>, need, cap)}
  ELSE {[sel EXCEPT ![panel] = Range(o[1])] :
          o \in SampleLoop(ALL_NUMS, <<>>, MAX_PER_PANEL, cap)}

clearPanel(sel, panel) == [sel EXCEPT ![panel] = {}]

\* history: a click that changes the picks marks every run in flight
InFlight == {r \in 1..Len(runs) : runs[r].timeouts # {}}
MarkEdited == edited' = IF selected' # selected THEN edited \cup InFlight ELSE edited

ClickBox ==
  /\ PageClickable
  /\ \E panel \in EditPanels, num \in ToggleNums :
       /\ num \in selected[panel] \/ ~(Cardinality(selected[panel]) >= MAX_PER_PANEL)
       /\ selected' = toggle(selected, panel, num)
  /\ MarkEdited
  /\ NoWarning
  /\ UNCHANGED <<showInstruction, showModal, animating, displayed, winning, bonus,
                 results, shouldConfetti, lastSnapshot, runs, published>>

ClickAuto(cap) ==
  /\ PageClickable
  /\ \E panel \in EditPanels : selected' \in autoFillPanel(selected, panel, cap)
  /\ MarkEdited
  /\ NoWarning
  /\ UNCHANGED <<showInstruction, showModal, animating, displayed, winning, bonus,
                 results, shouldConfetti, lastSnapshot, runs, published>>

ClickClear ==
  /\ PageClickable
  /\ \E panel \in EditPanels :
       /\ Cardinality(selected[panel]) > 0
       /\ selected' = clearPanel(selected, panel)
  /\ MarkEdited
  /\ NoWarning
  /\ UNCHANGED <<showInstruction, showModal, animating, displayed, winning, bonus,
                 results, shouldConfetti, lastSnapshot, runs, published>>

\* ------------------------------------------------------------ draw engine
\* generateWinning with the bonus indexed in ALL_NUMS instead of the pool left
generateWinning_BonusFromAll(cap) ==
  UNION {{[win |-> SortAsc(o[1]), bonus |-> ALL_NUMS[j + 1]] :
            j \in RandIdx(Len(ALL_NUMS), cap)} :
          o \in SampleLoop(ALL_NUMS, <<>>, WIN_COUNT, cap)}

\* every {win, bonus} generateWinning() can return
generateWinning(cap) ==
  UNION {{[win |-> SortAsc(o[1]), bonus |-> o[2][j + 1]] :
            j \in RandIdx(Len(o[2]), cap)} :
          o \in SampleLoop(ALL_NUMS, <<>>, WIN_COUNT, cap)}

\* every array genRandomSet() can return, held as the set of its numbers
genRandomSet(cap) ==
  {Range(SortAsc(o[1])) : o \in SampleLoop(ALL_NUMS, <<>>, WIN_COUNT, cap)}

makeRandomSnapshot(cap) == [PanelSet -> genRandomSet(cap)]

\* const finalAll = [...win, bonus]
finalAll(win, b) == [i \in Slots |-> IF i < Len(win) THEN win[i + 1] ELSE b]

\* delays that shrink with the slot index
LockDelay_Reversed(i) == LOCK_STEP_MS * (NumSlots - i)

\* the delay given to window.setTimeout for slot i
LockDelay(i) == LOCK_STEP_MS * (i + 1)

\* Rank with the plain 5-match rule tried before the bonus rule
Rank_FiveBeforeBonus(matchCount, bonusMatch) ==
  IF matchCount = 6 THEN "1st place"
  ELSE IF matchCount = 5 THEN "3rd place"
  ELSE IF matchCount = 5 /\ bonusMatch THEN "2nd place"
  ELSE IF matchCount = 4 THEN "4th place"
  ELSE IF matchCount = 3 THEN "5th place"
  ELSE "No win"

Rank(matchCount, bonusMatch) ==
  IF matchCount = 6 THEN "1st place"
  ELSE IF matchCount = 5 /\ bonusMatch THEN "2nd place"
  ELSE IF matchCount = 5 THEN "3rd place"
  ELSE IF matchCount = 4 THEN "4th place"
  ELSE IF matchCount = 3 THEN "5th place"
  ELSE "No win"

\* the body of PANELS.map: the DrawResult of panel p
Evaluate(p, snapshot, win, b) ==
  LET picks == SortSet(snapshot[p])
      matchCount == Cardinality({k \in 1..Len(picks) : picks[k] \in Range(win)})
      bonusMatch == \E k \in 1..Len(picks) : picks[k] = b
  IN [panel |-> p, picks |-> picks, matchCount |-> matchCount,
      bonusMatch |-> bonusMatch, rank |-> Rank(matchCount, bonusMatch)]

\* computed with the sheets that do not hold 6 picks rejected
computed_FullSheetsOnly(snapshot, win, b) ==
  SelectSeq([k \in 1..Len(PANELS) |-> Evaluate(PANELS[k], snapshot, win, b)],
            LAMBDA res : Len(res.picks) = MAX_PER_PANEL)

computed(snapshot, win, b) == [k \in 1..Len(PANELS) |-> Evaluate(PANELS[k], snapshot, win, b)]

WinningRanks == {"1st place", "2nd place", "3rd place", "4th place", "5th place"}

\* the closure of one call: what its callbacks read, the timers it still
\* holds, and (history) its caller and how often its evaluation ran
NewRun(kind, snapshot, g) ==
  [kind |-> kind, snapshot |-> snapshot, win |-> g.win, bonus |-> g.bonus,
   intervals |-> Slots, timeouts |-> Slots, completions |-> 0]

\* The synchronous part of runDrawAnimationAndEvaluate(snapshot): the state
\* resets, the draw, 7 intervals and 7 timeouts.
runDrawAnimationAndEvaluate(snapshot, kind, cap) ==
  /\ Len(runs) < MaxDraws
  /\ animating' = TRUE
  /\ displayed' = [i \in Slots |-> NULL]
  /\ shouldConfetti' = FALSE
  /\ \E g \in generateWinning(cap) :
       /\ winning' = g.win
       /\ bonus' = g.bonus
       /\ runs' = Append(runs, NewRun(kind, snapshot, g))

\* the snapshot drawAndEvaluate takes of the live picks
TakeSnapshot(sel) == [p \in PanelSet |-> sel[p]]

allEmpty(snapshot) == \A p \in PanelSet : Cardinality(snapshot[p]) = 0

\* incompleteSheets with > 1 for > 0: a sheet of one pick counts as complete
incompleteSheets_FromTwo(snapshot) ==
  SelectSeq(PANELS, LAMBDA p : Cardinality(snapshot[p]) > 1
                               /\ Cardinality(snapshot[p]) < MAX_PER_PANEL)

\* incompleteSheets with <= for <: a full sheet counts as incomplete
incompleteSheets_FullCounts(snapshot) ==
  SelectSeq(PANELS, LAMBDA p : Cardinality(snapshot[p]) > 0
                               /\ Cardinality(snapshot[p]) <= MAX_PER_PANEL)

incompleteSheets(snapshot) ==
  SelectSeq(PANELS, LAMBDA p : Cardinality(snapshot[p]) > 0
                               /\ Cardinality(snapshot[p]) < MAX_PER_PANEL)

drawAndEvaluate(cap) ==
  /\ PageClickable
  /\ LET snapshot == TakeSnapshot(selected) IN
     IF allEmpty(snapshot)
     THEN /\ toast' = [kind |-> "empty", sheets |-> <<>>]
          /\ UNCHANGED <<selected, showInstruction, showModal, animating, displayed,
                         winning, bonus, results, shouldConfetti, lastSnapshot, runs,
                         published, edited>>
     ELSE IF Len(incompleteSheets(snapshot)) > 0
     THEN /\ toast' = [kind |-> "incomplete", sheets |-> incompleteSheets(snapshot)]
          /\ UNCHANGED <<selected, showInstruction, showModal, animating, displayed,
                         winning, bonus, results, shouldConfetti, lastSnapshot, runs,
                         published, edited>>
     ELSE /\ lastSnapshot' = <<snapshot>>
          /\ showModal' = TRUE
          /\ runDrawAnimationAndEvaluate(snapshot, "draw", cap)
          /\ NoWarning
          /\ UNCHANGED <<selected, showInstruction, results, published, edited>>

ModalButtons == showModal /\ ~showInstruction /\ ~animating

playAgainSameNumbers(cap) ==
  /\ ModalButtons
  /\ LET snapshot == IF lastSnapshot = <<>> THEN [p \in PanelSet |-> {}]
                     ELSE lastSnapshot[1]
     IN runDrawAnimationAndEvaluate(snapshot, "same", cap)
  /\ NoWarning
  /\ UNCHANGED <<selected, showInstruction, showModal, results, lastSnapshot,
                 published, edited>>

playWithNewNumbers(cap, fillCap) ==
  /\ ModalButtons
  /\ \E randomSnap \in makeRandomSnapshot(fillCap) :
       /\ lastSnapshot' = <<randomSnap>>
       /\ runDrawAnimationAndEvaluate(randomSnap, "new", cap)
  /\ NoWarning
  /\ UNCHANGED <<selected, showInstruction, showModal, results, published, edited>>

CloseModal ==
  /\ ModalButtons
  /\ showModal' = FALSE
  /\ shouldConfetti' = FALSE
  /\ NoWarning
  /\ UNCHANGED <<selected, showInstruction, animating, displayed, winning, bonus,
                 results, lastSnapshot, runs, published, edited>>

BackdropClick ==
  /\ showModal /\ ~showInstruction
  /\ showModal' = FALSE
  /\ NoWarning
  /\ UNCHANGED <<selected, showInstruction, animating, displayed, winning, bonus,
                 results, shouldConfetti, lastSnapshot, runs, published, edited>>

\* ------------------------------------------------------------ timers
RunIds == 1..Len(runs)

\* the callback of interval i of run r
TickOf(r, i, cap) ==
  /\ i \in runs[r].intervals
  /\ \E j \in RandIdx(NumCount, cap) : displayed' = [displayed EXCEPT ![i] = j + 1]
  /\ NoWarning
  /\ UNCHANGED <<selected, showInstruction, showModal, animating, winning, bonus,
                 results, shouldConfetti, lastSnapshot, runs, published, edited>>

IntervalTick(cap) == \E r \in RunIds, i \in Slots : TickOf(r, i, cap)

\* Timers of one window run in the order of their delays when they were
\* set in that order: a timeout waits for every timeout set before it with
\* a delay not longer than its own.  Timeouts are set in the order (run, i).
TimeoutMayFire(r, i) ==
  \A r2 \in RunIds : \A i2 \in runs[r2].timeouts :
    (r2 < r \/ (r2 = r /\ i2 < i)) => LockDelay(i2) > LockDelay(i)

\* lockOne(idx) of run r: the interval ids left and the slots shown
lockOneIntervals(r, idx) == runs[r].intervals \ {idx}
lockOneDisplayed(r, idx) ==
  [displayed EXCEPT ![idx] = finalAll(runs[r].win, runs[r].bonus)[idx]]

\* setSelected({A: new Set(), ...}) at the end of the evaluation
selectedAfterEvaluation_Kept == selected

selectedAfterEvaluation == [p \in PanelSet |-> {}]

\* the last slot only (i === 6) also evaluates
IsLastSlot_FromFive(i) == i >= 5

\* if (i === 6): the callback that also evaluates
IsLastSlot(i) == i = 6

\* the evaluation reading the live picks instead of its snapshot
EvaluatedPicks_Live(r) == TakeSnapshot(selected)

\* the picks the evaluation of run r reads
EvaluatedPicks(r) == runs[r].snapshot

\* the callback of timeout i of run r
LockOf(r, i) ==
  /\ i \in runs[r].timeouts
  /\ TimeoutMayFire(r, i)
  /\ displayed' = lockOneDisplayed(r, i)
  /\ IF IsLastSlot(i)
     THEN LET c == computed(EvaluatedPicks(r), runs[r].win, runs[r].bonus) IN
          /\ results' = c
          /\ published' = [run |-> r, draws |-> Len(runs)]
          /\ shouldConfetti' = \E k \in 1..Len(c) : c[k].rank \in WinningRanks
          /\ selected' = selectedAfterEvaluation
          /\ animating' = FALSE
          /\ runs' = [runs EXCEPT ![r].intervals = lockOneIntervals(r, i),
                                  ![r].timeouts = @ \ {i},
                                  ![r].completions = @ + 1]
     ELSE /\ runs' = [runs EXCEPT ![r].intervals = lockOneIntervals(r, i),
                                  ![r].timeouts = @ \ {i}]
          /\ UNCHANGED <<results, published, shouldConfetti, selected, animating>>
  /\ NoWarning
  /\ UNCHANGED <<showInstruction, showModal, winning, bonus, lastSnapshot, edited>>

LockTimeout == \E r \in RunIds, i \in Slots : LockOf(r, i)

Next ==
  \/ DismissInstruction
  \/ ClickBox
  \/ ClickAuto(MaxRandIdx)
  \/ ClickClear
  \/ drawAndEvaluate(MaxRandIdx)
  \/ playAgainSameNumbers(MaxRandIdx)
  \/ playWithNewNumbers(MaxRandIdx, MaxRandIdx)
  \/ CloseModal
  \/ BackdropClick
  \/ IntervalTick(MaxRandIdx)
  \/ LockTimeout

Spec == Init /\ [][Next]_vars

\* ------------------------------------------------------------ the draw alone
\* The page after a draw of snapshot snap with outcome g has run to its end
\* and nothing else was clicked.
AfterDraw(snap, g) ==
  /\ selected = initialSelected
  /\ showInstruction = FALSE
  /\ showModal = TRUE
  /\ animating = FALSE
  /\ displayed = finalAll(g.win, g.bonus)
  /\ winning = g.win
  /\ bonus = g.bonus
  /\ results = computed(snap, g.win, g.bonus)
  /\ shouldConfetti = \E p \in PanelSet : Evaluate(p, snap, g.win, g.bonus).rank \in WinningRanks
  /\ lastSnapshot = <<snap>>
  /\ toast = NoToast
  /\ runs = <<[NewRun("draw", snap, g) EXCEPT !.intervals = {}, !.timeouts = {},
                                             !.completions = 1]>>
  /\ published = [run |-> 1, draws |-> 1]
  /\ edited = {}

\* The page with sheet A filled with S, before any draw.
BeforeDraw(S) ==
  /\ selected = [initialSelected EXCEPT !["A"] = S]
  /\ showInstruction = FALSE
  /\ showModal = FALSE
  /\ animating = FALSE
  /\ displayed = [i \in Slots |-> NULL]
  /\ winning = <<>>
  /\ bonus = NULL
  /\ results = <<>>
  /\ shouldConfetti = FALSE
  /\ lastSnapshot = <<>>
  /\ toast = NoToast
  /\ runs = <<>>
  /\ published = NotPublished
  /\ edited = {}

SixSets(n) == {S \in SUBSET (1..n) : Cardinality(S) = MAX_PER_PANEL}

DrawInit ==
  \E S \in SixSets(MAX_PER_PANEL) :
    \/ BeforeDraw(S)
    \/ \E g \in generateWinning(MaxRandIdx) : AfterDraw([initialSelected EXCEPT !["A"] = S], g)

\* The three ways a reveal sequence starts, with the wide random source for
\* the draw; the random snapshot's own indices are held at 0.
DrawNext ==
  \/ drawAndEvaluate(WideRandIdx)
  \/ playAgainSameNumbers(WideRandIdx)
  \/ playWithNewNumbers(WideRandIdx, 0)

SpecDraw == DrawInit /\ [][DrawNext]_vars

ValidDraw(win, b) ==
  /\ Len(win) = 6
  /\ \A k \in 1..Len(win) : win[k] \in 1..45
  /\ \A k \in 1..(Len(win) - 1) : win[k] < win[k + 1]
  /\ b \in 1..45
  /\ \A k \in 1..Len(win) : win[k] # b

\* C1: the winning draw of every reveal sequence, whichever handler started
\* it, is 6 distinct main numbers in 1..45 in ascending order and a bonus in
\* 1..45 that is none of them; the stored winning / bonus hold the same.
C1_WinningDrawValid ==
  /\ \A r \in RunIds : ValidDraw(runs[r].win, runs[r].bonus)
  /\ runs # <<>> => ValidDraw(winning, bonus)

\* a sequence started by "play again" whose bonus is below all its main numbers
C1_Witness ==
  \E r \in RunIds :
    /\ runs[r].kind \in {"same", "new"}
    /\ runs[r].timeouts = Slots
    /\ runs[r].bonus < runs[r].win[1]

\* ------------------------------------------------------------ the evaluation alone
\* The page when the last timeout of a draw of snapshot snap with outcome g
\* is the only one pending; slot 6 still rolls.
BeforeLastLock(snap, g) ==
  /\ selected = snap
  /\ showInstruction = FALSE
  /\ showModal = TRUE
  /\ animating = TRUE
  /\ displayed = [finalAll(g.win, g.bonus) EXCEPT ![6] = NULL]
  /\ winning = g.win
  /\ bonus = g.bonus
  /\ results = <<>>
  /\ shouldConfetti = FALSE
  /\ lastSnapshot = <<snap>>
  /\ toast = NoToast
  /\ runs = <<[NewRun("draw", snap, g) EXCEPT !.intervals = {6}, !.timeouts = {6}]>>
  /\ published = NotPublished
  /\ edited = {}

RankInit ==
  \E S \in SixSets(RankPoolMax), g \in generateWinning(MaxRandIdx) :
    BeforeLastLock([initialSelected EXCEPT !["A"] = S], g)

RankNext ==
  \/ IntervalTick(MaxRandIdx)
  \/ LockTimeout

SpecRank == RankInit /\ [][RankNext]_vars

\* C2: for every sheet of 6 picks the published result has
\* matchCount = |picks /\ main numbers|, bonusMatch = (bonus among the picks)
\* and the rank of the table: 6 -> 1st; 5 with bonus -> 2nd; 5 without -> 3rd;
\* 4 -> 4th; 3 -> 5th; 2 or fewer -> No win (so the bonus matters at 5 only).
C2_RankTable ==
  published.run # 0 =>
    \A k \in 1..Len(results) :
      LET res == results[k]
          P == runs[published.run].snapshot[res.panel]
          m == Cardinality(P \cap Range(runs[published.run].win))
          bm == runs[published.run].bonus \in P
      IN Cardinality(P) = 6 =>
           /\ res.picks = SortSet(P)
           /\ res.matchCount = m
           /\ res.bonusMatch = bm
           /\ res.rank = CASE m = 6 -> "1st place"
                           [] m = 5 /\ bm -> "2nd place"
                           [] m = 5 /\ ~bm -> "3rd place"
                           [] m = 4 -> "4th place"
                           [] m = 3 -> "5th place"
                           [] m <= 2 -> "No win"

\* sheet A was evaluated with 5 matches and the bonus
C2_Witness ==
  /\ published.run # 0
  /\ results[1].panel = "A"
  /\ results[1].matchCount = 5
  /\ results[1].bonusMatch
  /\ results[1].rank = "2nd place"

\* ------------------------------------------------------------ the Draw button alone
\* The page with the given picks, before any draw.
PrefixSets == {1..k : k \in 0..MAX_PER_PANEL}

ValidateInit ==
  \E sel \in [PanelSet -> PrefixSets] :
    /\ selected = sel
    /\ showInstruction = FALSE
    /\ showModal = FALSE
    /\ animating = FALSE
    /\ displayed = [i \in Slots |-> NULL]
    /\ winning = <<>>
    /\ bonus = NULL
    /\ results = <<>>
    /\ shouldConfetti = FALSE
    /\ lastSnapshot = <<>>
    /\ toast = NoToast
    /\ runs = <<>>
    /\ published = NotPublished
  /\ edited = {}

ValidateNext == drawAndEvaluate(MaxRandIdx)

SpecValidate == ValidateInit /\ [][ValidateNext]_vars

PartialSheets == {p \in PanelSet : Cardinality(selected[p]) \in 1..5}

DrawBlocked ==
  /\ runs' = runs
  /\ animating' = animating
  /\ showModal' = showModal

DrawStarted ==
  /\ Len(runs') = Len(runs) + 1
  /\ runs'[Len(runs')].timeouts = Slots
  /\ runs'[Len(runs')].intervals = Slots
  /\ animating'
  /\ toast'.kind = "none"

\* C3: a press of Draw ends in one of three ways, decided by the sheet sizes:
\* all sheets empty -> the "empty" warning and nothing starts; else some sheet
\* of 1..5 picks -> the "incomplete" warning naming exactly those sheets and
\* nothing starts; else the reveal sequence starts, with no warning.
C3_DrawOutcomes ==
  [][drawAndEvaluate(MaxRandIdx) =>
       IF \A p \in PanelSet : selected[p] = {}
       THEN toast'.kind = "empty" /\ DrawBlocked
       ELSE IF PartialSheets # {}
       THEN /\ toast'.kind = "incomplete"
            /\ Range(toast'.sheets) = PartialSheets
            /\ Len(toast'.sheets) = Cardinality(PartialSheets)
            /\ DrawBlocked
       ELSE DrawStarted]_vars

\* Draw was blocked naming B and D while A was full and C, E empty
C3_Witness ==
  /\ toast.kind = "incomplete"
  /\ toast.sheets = <<"B", "D">>
  /\ Cardinality(selected["A"]) = 6
  /\ runs = <<>>
  /\ ~animating

\* ------------------------------------------------------------ the reveal sequence
\* The draws and their timers without the clicks that only edit picks;
\* timers fire: the event loop runs every timeout that is due.
RevealNext ==
  \/ DismissInstruction
  \/ ClickAuto(MaxRandIdx)
  \/ drawAndEvaluate(MaxRandIdx)
  \/ playAgainSameNumbers(MaxRandIdx)
  \/ playWithNewNumbers(MaxRandIdx, MaxRandIdx)
  \/ BackdropClick
  \/ IntervalTick(MaxRandIdx)
  \/ LockTimeout

FairSpec == Init /\ [][RevealNext]_vars /\ WF_vars(LockTimeout)

Final(r) == finalAll(runs[r].win, runs[r].bonus)
Locked(r) == Slots \ runs[r].timeouts

\* C4: when a draw starts, no interval and no timeout of an earlier draw is
\* left, so only the draw started last can hold timers.
C4_OnlyLatestHoldsTimers ==
  \A r \in RunIds :
    r < Len(runs) => runs[r].intervals = {} /\ runs[r].timeouts = {}

\* C5: once a sequence has run its evaluation, and until another draw is
\* started, the 7 slots show its 6 main numbers in order and then its bonus.
C5_ShownAfterCompletion ==
  (published.run # 0 /\ Len(runs) = published.draws) =>
    displayed = Final(published.run)

\* C6: a slot whose lock has fired and that shows its final value keeps it
\* in every step that starts no draw.
C6_LockedSlotStays ==
  [][\A r \in RunIds : \A i \in Locked(r) :
       (displayed[i] = Final(r)[i] /\ Len(runs') = Len(runs))
         => displayed'[i] = displayed[i]]_vars

\* C7: in every sequence the locks fire in slot order, one at a time: the
\* locked slots are always a prefix 0..k-1 of the 7 slots.
C7_LocksInOrder ==
  \A r \in RunIds : \A i \in Locked(r) : \A j \in Slots : j < i => j \in Locked(r)

\* the second of two overlapping sequences has locked exactly its first 3 slots
C7_Witness ==
  /\ Len(runs) = 2
  /\ Locked(2) = 0..2
  /\ published.run = 1
  /\ published.draws = 2

\* C8: the evaluation of every started sequence runs, exactly once, and not
\* before all 7 of its slots are locked; results published by a sequence
\* find none of its slots unlocked.
EvaluatedOnceAfterLocks ==
  /\ \A r \in RunIds :
       /\ runs[r].completions <= 1
       /\ runs[r].completions = 1 => runs[r].timeouts = {} /\ runs[r].intervals = {}
  /\ published.run # 0 => runs[published.run].timeouts = {}

C8_EvaluatedOnce ==
  /\ []EvaluatedOnceAfterLocks
  /\ \A r \in 1..MaxDraws :
       (Len(runs) >= r) ~> (Len(runs) >= r /\ runs[r].completions = 1)

\* two sequences overlapped and both have run their evaluation
C8_Witness ==
  /\ Len(runs) = 2
  /\ published.draws = 2
  /\ runs[1].completions = 1
  /\ runs[2].completions = 1

\* C9: the published picks, match counts and ranks are those of the picks the
\* publishing sequence was started with, whatever was clicked during its flight.
C9_ResultsFromSnapshot ==
  published.run # 0 =>
    \A k \in 1..Len(PANELS) :
      LET P == runs[published.run].snapshot[PANELS[k]]
          m == Cardinality(P \cap Range(runs[published.run].win))
          bm == runs[published.run].bonus \in P
      IN /\ Len(results) = Len(PANELS)
         /\ results[k].panel = PANELS[k]
         /\ Range(results[k].picks) = P
         /\ Len(results[k].picks) = Cardinality(P)
         /\ results[k].matchCount = m
         /\ results[k].bonusMatch = bm
         /\ results[k].rank = Rank(m, bm)

\* results were published by a sequence started by Draw during whose flight
\* the picks were edited
C9_Witness ==
  /\ published.run # 0
  /\ published.run \in edited
  /\ runs[published.run].kind = "draw"
  /\ Cardinality(runs[published.run].snapshot["A"]) = 6

\* C10 as written: while a sequence started by Draw is in flight and nothing
\* was clicked since, the live picks are empty.
C10_ClearedAtStart ==
  \A r \in RunIds :
    (runs[r].kind = "draw" /\ runs[r].timeouts # {} /\ r \notin edited)
      => selected = initialSelected

\* C10 amended: starting a draw leaves the live picks as they are; the
\* evaluation of a sequence (after its 7th lock) empties all 5 sheets,
\* picks entered during the flight included.
C10_ClearedAtCompletion ==
  [][/\ Len(runs') > Len(runs) => selected' = selected
     /\ (\E r \in RunIds : runs'[r].completions > runs[r].completions)
          => \A p \in PanelSet : selected'[p] = {}]_vars

\* a sequence started by Draw has evaluated after picks were edited in its
\* flight, and the sheets are empty
C10_Witness ==
  /\ published.run # 0
  /\ published.run \in edited
  /\ runs[published.run].kind = "draw"
  /\ runs[published.run].completions = 1
  /\ selected = initialSelected

\* ------------------------------------------------------------ evaluated snapshots
\* C11: the snapshot of every reveal sequence, started by Draw, by "play again
\* with the same numbers" or by "play again with new numbers", holds for each
\* of the 5 sheets no number or exactly 6 numbers of 1..45; a sheet of 1..5
\* numbers is never evaluated.
C11_SnapshotsZeroOrSix ==
  \A r \in RunIds : \A p \in PanelSet :
    /\ runs[r].snapshot[p] \subseteq 1..45
    /\ Cardinality(runs[r].snapshot[p]) \in {0, 6}

\* a draw of sheet A alone was followed by "play again with new numbers",
\* and both were evaluated
C11_Witness ==
  /\ Len(runs) = 2
  /\ runs[1].kind = "draw" /\ runs[1].completions = 1
  /\ Cardinality(runs[1].snapshot["A"]) = 6
  /\ Cardinality(runs[1].snapshot["B"]) = 0
  /\ runs[2].kind = "new" /\ runs[2].completions = 1

\* C12 as written: evaluation gives a match count and a rank to pick sets of
\* exactly 6 numbers only.
C12_OnlySixEvaluated ==
  published.run # 0 => \A k \in 1..Len(results) : Len(results[k].picks) = 6

\* C12 amended: the evaluation has no failure path; it lists all 5 sheets, and
\* a sheet that reaches it empty is given matchCount 0, no bonus match and the
\* rank "No win"; no sheet of 1..5 picks reaches it.
C12_EmptySheetNoWin ==
  published.run # 0 =>
    /\ Len(results) = Len(PANELS)
    /\ \A k \in 1..Len(results) :
         /\ Len(results[k].picks) \in {0, 6}
         /\ Len(results[k].picks) = 0 =>
              /\ runs[published.run].snapshot[results[k].panel] = {}
              /\ results[k].matchCount = 0
              /\ ~results[k].bonusMatch
              /\ results[k].rank = "No win"

\* "play again with the same numbers" evaluated a snapshot whose sheet A holds
\* 6 picks and whose sheet B is empty
C12_Witness ==
  /\ published.run # 0
  /\ runs[published.run].kind = "same"
  /\ Len(results[1].picks) = 6
  /\ results[2].panel = "B"
  /\ results[2].picks = <<>>
  /\ results[2].rank = "No win"

\* ------------------------------------------------------------ the picks alone
PickNums == 1..MaxPickNum

\* toggle(panel, num) called, whatever the box looked like when it was drawn
toggleCall(panel, num) ==
  /\ PageClickable
  /\ selected' = toggle(selected, panel, num)
  /\ MarkEdited
  /\ NoWarning
  /\ UNCHANGED <<showInstruction, showModal, animating, displayed, winning, bonus,
                 results, shouldConfetti, lastSnapshot, runs, published>>

\* The page after a first draw of a full sheet A has run to its end.
PicksInit ==
  \E S \in SixSets(MAX_PER_PANEL), g \in generateWinning(MaxRandIdx) :
    AfterDraw([initialSelected EXCEPT !["A"] = S], g)

\* The handlers that write the picks, the Draw button and the timeouts (the
\* only timer callbacks that write the picks; the interval callbacks write
\* the shown slots alone).

PicksNext ==
  \/ \E panel \in EditPanels, num \in PickNums : toggleCall(panel, num)
  \/ ClickAuto(MaxRandIdx)
  \/ ClickClear
  \/ drawAndEvaluate(MaxRandIdx)
  \/ BackdropClick
  \/ LockTimeout

SpecPicks == PicksInit /\ [][PicksNext]_vars

PicksValid ==
  \A p \in PanelSet :
    /\ selected[p] \subseteq 1..45
    /\ Cardinality(selected[p]) <= 6

\* C13: whatever toggles, auto-fills, clears, draws and timer callbacks ran,
\* every sheet's live picks are at most 6 numbers of 1..45; and a toggle of a
\* number that is not picked, on a sheet that holds 6, changes no pick.
C13_PicksWithinLimit ==
  /\ []PicksValid
  /\ [][\A panel \in EditPanels, num \in PickNums :
          (/\ toggleCall(panel, num)
           /\ Cardinality(selected[panel]) = 6
           /\ num \notin selected[panel]) => selected' = selected]_vars

\* sheet A was brought to 2..7 by toggles during the flight of a sequence;
\* the box of 1 can be clicked on the full sheet
C13_Witness ==
  /\ selected["A"] = 2..7
  /\ PageClickable
  /\ Len(runs) = 2
  /\ 2 \in edited
  /\ runs[2].timeouts # {}

\* ------------------------------------------------------------ auto-fill alone
\* Sheets of 0..6 picks, the lowest or the highest numbers of the pool.
AutoSheets ==
  PrefixSets \cup {(NumCount + 1 - k)..NumCount : k \in 0..MAX_PER_PANEL}

\* The page with the same picks S on sheets A and B, before any draw.
AutoFillInit ==
  \E S \in AutoSheets :
    /\ selected = [initialSelected EXCEPT !["A"] = S, !["B"] = S]
    /\ showInstruction = FALSE
    /\ showModal = FALSE
    /\ animating = FALSE
    /\ displayed = [i \in Slots |-> NULL]
    /\ winning = <<>>
    /\ bonus = NULL
    /\ results = <<>>
    /\ shouldConfetti = FALSE
    /\ lastSnapshot = <<>>
    /\ toast = NoToast
    /\ runs = <<>>
    /\ published = NotPublished
    /\ edited = {}

AutoFillNext == ClickAuto(AutoRandIdx)

SpecAutoFill == AutoFillInit /\ [][AutoFillNext]_vars

AutoFilled(panel) ==
  /\ \A q \in PanelSet \ {panel} : selected'[q] = selected[q]
  /\ selected'[panel] \subseteq 1..45
  /\ Cardinality(selected'[panel]) = 6
  /\ Cardinality(selected[panel]) < 6 => selected[panel] \subseteq selected'[panel]

\* C14: auto-fill of a sheet leaves it with exactly 6 numbers of 1..45 and
\* the other 4 sheets as they were; a sheet that held fewer than 6 keeps every
\* number it held (a sheet that held 6 is replaced, with nothing promised
\* about the numbers it held).
C14_AutoFillToSix ==
  [][\A panel \in EditPanels :
       (PageClickable /\ selected' \in autoFillPanel(selected, panel, AutoRandIdx))
         => AutoFilled(panel)]_vars

\* sheet B still holds the 6 numbers sheet A started with, and auto-fill has
\* left sheet A with 6 numbers none of which is among them
C14_Witness ==
  /\ Cardinality(selected["B"]) = 6
  /\ Cardinality(selected["A"]) = 6
  /\ selected["A"] \cap selected["B"] = {}

\* ------------------------------------------------------------ the result view
\* C15: whenever results are shown as final (not animating, an evaluation has
\* run), each sheet's matchCount and bonusMatch are those of its listed picks
\* against the stored winning numbers and bonus, and the 7 slots show the
\* stored winning numbers followed by the stored bonus.
C15_ResultsMatchShownDraw ==
  (~animating /\ published.run # 0) =>
    /\ \A k \in 1..Len(results) :
         /\ results[k].matchCount = Cardinality(Range(results[k].picks) \cap Range(winning))
         /\ results[k].bonusMatch = (bonus \in Range(results[k].picks))
    /\ displayed = finalAll(winning, bonus)

====
